---- MODULE Spec2Model ----
(***************************************************************************)
(* Model of package app (app/app.go): the App handle with its lazily       *)
(* created logger (Logger / Exit), its single-shot error channel           *)
(* (Errors / HandleError) and the concurrent environment search            *)
(* (LookupEnv).  Goroutines are the processes 1..NumProcs; every numbered  *)
(* source line that touches shared state is one atomic step.               *)
(***************************************************************************)
EXTENDS Integers, Sequences, FiniteSets, TLC

(* ------------------------------ bounds --------------------------------- *)

\* goroutines that call into the handle
NumProcs == 2
\* calls started on the handle in one behaviour
MaxCalls == 3
\* receives performed on channels returned by Errors()
MaxRecvs == 2
\* entries of App.Environment
MaxEnv == 2
\* characters of one environment entry
MaxLineLen == 2

Procs == 1 .. NumProcs

\* the nil pointer / nil channel / nil error, and the free mutex
Nil == 0
Unlocked == 0

\* the exit codes callers pass (app_test.go:59 passes 255)
Codes == {0, 255}
\* the errors callers pass: the nil error and a non-nil one
Errs == {Nil, 1}

\* what App.ExitHandler is set to: nil, os.Exit (as New does), a handler that
\* panics (as the tests' handler does), or a handler that returns
ExitHandlers == {"nil", "os.Exit", "panics", "returns"}

VARIABLES
    \* --- App fields (app.go:20-34)
    ExitHandler,    \* App.ExitHandler
    loggerMu,       \* App.loggerMu: the goroutine holding it, or Unlocked
    logger,         \* App.logger: index into loggers, or Nil
    errchMu,        \* App.errchMu
    errch,          \* App.errch: index into chans, or Nil
    Environment,    \* App.Environment
    cancelled,      \* App.Context is done
    \* --- heap
    loggers,        \* the *gomol.Base objects created: [initialized]
    chans,          \* the error channels made: [buf, closed]
    \* --- goroutines calling the handle
    pc,             \* position of each goroutine
    arg,            \* the argument of its call (exit code / error)
    cid,            \* the number of its call
    seen,           \* Exit: the a.logger it found at line 54; Logger: local `logger`
    late,           \* HandleError: an earlier HandleError had ended when it began
    terminated,     \* os.Exit has ended the process
    \* --- history
    ncalls,         \* calls started
    nrecvs,         \* receives performed
    exitStarted,    \* some Exit call has begun
    results,        \* the calls that ended: [cid, op, out, val, late]
    handed,         \* the invocations of the exit routine, in order
    recvLog,        \* the receives performed, in order: [ch, val, ok]
    sends,          \* the sends that put a value on a channel: [cid, ch, val]
    \* --- one LookupEnv call (app.go:144-175)
    key,            \* its argument
    cancelledAtCall,\* the context was done when it was called
    mainpc,         \* the caller: "call", "recv", "returned"
    result,         \* what it returned: <<v, ok>>
    chClosed,       \* ch is closed
    wg,             \* the WaitGroup counter
    spawned,        \* entries the spawning goroutine has started a task for
    task,           \* per entry: "none", "select", "send", "done"
    closer          \* the supervising goroutine: "none", "wait", "close", "done"

appVars == <<ExitHandler, loggerMu, logger, errchMu, errch, loggers, chans>>
procVars == <<pc, arg, cid, seen, late, terminated>>
histVars == <<ncalls, nrecvs, exitStarted, results, handed, recvLog, sends>>
envVars == <<Environment, cancelled, key, cancelledAtCall, mainpc, result,
             chClosed, wg, spawned, task, closer>>
vars == <<appVars, procVars, histVars, envVars>>

logVars == <<loggerMu, logger, loggers>>
errVars == <<errchMu, errch, chans>>

(* --------------------------- sync.Mutex -------------------------------- *)

\* a Lock() that excludes nobody
MutexFreeAlways(mu) == TRUE

\* Lock() goes through only when nobody holds the mutex
MutexFree(mu) == mu = Unlocked

(* ----------------------- calls and their ends -------------------------- *)

\* a goroutine not inside a call may start one while the process lives
CanCall(p) ==
    /\ ~terminated
    /\ pc[p] = "idle"
    /\ ncalls < MaxCalls

\* the call of goroutine p begins at position at with argument a
Begin(p, at, a) ==
    /\ pc' = [pc EXCEPT ![p] = at]
    /\ arg' = [arg EXCEPT ![p] = a]
    /\ cid' = [cid EXCEPT ![p] = ncalls + 1]
    /\ ncalls' = ncalls + 1

\* the call of goroutine p ends: out is "return" or "panic", val what it returned
End(p, op, out, val) ==
    /\ results' = results \cup
           {[cid |-> cid[p], op |-> op, out |-> out, val |-> val, late |-> late[p]]}
    /\ pc' = [pc EXCEPT ![p] = "idle"]
    /\ arg' = [arg EXCEPT ![p] = 0]
    /\ cid' = [cid EXCEPT ![p] = 0]
    /\ seen' = [seen EXCEPT ![p] = Nil]
    /\ late' = [late EXCEPT ![p] = FALSE]

(* ------------------------ Logger (app.go:73-118) ----------------------- *)

\* a goroutine calls a.Logger()
CallLogger(p) ==
    /\ CanCall(p)
    /\ Begin(p, "L_lock", 0)
    /\ UNCHANGED <<appVars, seen, late, terminated, envVars>>
    /\ UNCHANGED <<nrecvs, exitStarted, results, handed, recvLog, sends>>

\* line 74: a.loggerMu.Lock()
LoggerLock(p) ==
    /\ ~terminated
    /\ pc[p] = "L_lock"
    /\ MutexFree(loggerMu)
    /\ loggerMu' = p
    /\ pc' = [pc EXCEPT ![p] = "L_check"]
    /\ UNCHANGED <<ExitHandler, logger, loggers, errVars, arg, cid, seen, late,
                   terminated, histVars, envVars>>

\* a Logger that creates an instance without looking at a.logger
LoggerCheckSkipped(p) ==
    /\ ~terminated
    /\ pc[p] = "L_check"
    /\ pc' = [pc EXCEPT ![p] = "L_new"]
    /\ UNCHANGED <<appVars, arg, cid, seen, late, terminated, histVars, envVars>>

\* line 77: if a.logger == nil
LoggerCheck(p) ==
    /\ ~terminated
    /\ pc[p] = "L_check"
    /\ pc' = [pc EXCEPT ![p] = IF logger = Nil THEN "L_new" ELSE "L_ret"]
    /\ UNCHANGED <<appVars, arg, cid, seen, late, terminated, histVars, envVars>>

\* lines 78-112: logger := gomol.NewBase(...); a.logger = logger
LoggerNew(p) ==
    /\ ~terminated
    /\ pc[p] = "L_new"
    /\ loggers' = Append(loggers, [initialized |-> FALSE])
    /\ logger' = Len(loggers) + 1
    /\ seen' = [seen EXCEPT ![p] = Len(loggers) + 1]
    /\ pc' = [pc EXCEPT ![p] = "L_init"]
    /\ UNCHANGED <<ExitHandler, loggerMu, errVars, arg, cid, late, terminated,
                   histVars, envVars>>

\* line 114: _ = logger.InitLoggers()
LoggerInit(p) ==
    /\ ~terminated
    /\ pc[p] = "L_init"
    /\ loggers' = [loggers EXCEPT ![seen[p]].initialized = TRUE]
    /\ pc' = [pc EXCEPT ![p] = "L_ret"]
    /\ UNCHANGED <<ExitHandler, loggerMu, logger, errVars, arg, cid, seen, late,
                   terminated, histVars, envVars>>

\* line 117 and the deferred unlock of line 75: return a.logger
LoggerReturn(p) ==
    /\ ~terminated
    /\ pc[p] = "L_ret"
    /\ End(p, "Logger", "return", logger)
    /\ loggerMu' = Unlocked
    /\ UNCHANGED <<ExitHandler, logger, loggers, errVars, terminated, envVars>>
    /\ UNCHANGED <<ncalls, nrecvs, exitStarted, handed, recvLog, sends>>

\* the caller shuts down a logger it was given (app_test.go:105)
ShutdownLoggers(p) ==
    /\ CanCall(p)
    /\ \E r \in results :
        /\ r.op = "Logger"
        /\ r.val # Nil
        /\ loggers[r.val].initialized
        /\ loggers' = [loggers EXCEPT ![r.val].initialized = FALSE]
    /\ ncalls' = ncalls + 1
    /\ UNCHANGED <<ExitHandler, loggerMu, logger, errVars, procVars, envVars>>
    /\ UNCHANGED <<nrecvs, exitStarted, results, handed, recvLog, sends>>

(* -------------------------- Exit (app.go:52-70) ------------------------ *)

\* the routine Exit hands the code to: lines 64-67
ExitRoutine(h) == IF h = "nil" THEN "os.Exit" ELSE "ExitHandler"

\* an Exit that always passes 0
ExitArgZero(code) == 0

\* the code Exit passes on: lines 65 and 67
ExitArg(code) == code

\* a goroutine calls a.Exit(code)
CallExit(p) ==
    /\ CanCall(p)
    /\ \E code \in Codes : Begin(p, "X_lock", code)
    /\ exitStarted' = TRUE
    /\ UNCHANGED <<appVars, seen, late, terminated, envVars>>
    /\ UNCHANGED <<nrecvs, results, handed, recvLog, sends>>

\* line 53: a.loggerMu.Lock()
ExitLock(p) ==
    /\ ~terminated
    /\ pc[p] = "X_lock"
    /\ MutexFree(loggerMu)
    /\ loggerMu' = p
    /\ pc' = [pc EXCEPT ![p] = "X_check"]
    /\ UNCHANGED <<ExitHandler, logger, loggers, errVars, arg, cid, seen, late,
                   terminated, histVars, envVars>>

\* line 54: if a.logger != nil
ExitCheck(p) ==
    /\ ~terminated
    /\ pc[p] = "X_check"
    /\ seen' = [seen EXCEPT ![p] = logger]
    /\ pc' = [pc EXCEPT ![p] = IF logger # Nil THEN "X_isinit" ELSE "X_unlock"]
    /\ UNCHANGED <<appVars, arg, cid, late, terminated, histVars, envVars>>

\* line 55: if a.logger.IsInitialized()
ExitIsInitialized(p) ==
    /\ ~terminated
    /\ pc[p] = "X_isinit"
    /\ pc' = [pc EXCEPT ![p] =
                 IF loggers[logger].initialized THEN "X_shutdown" ELSE "X_clear"]
    /\ UNCHANGED <<appVars, arg, cid, seen, late, terminated, histVars, envVars>>

\* an Exit that clears the reference without shutting the logger down
ExitShutdownSkipped(p) ==
    /\ ~terminated
    /\ pc[p] = "X_shutdown"
    /\ pc' = [pc EXCEPT ![p] = "X_clear"]
    /\ UNCHANGED <<appVars, arg, cid, seen, late, terminated, histVars, envVars>>

\* line 56, err == nil: a.logger.ShutdownLoggers() shut the logger down
ExitShutdown(p) ==
    /\ ~terminated
    /\ pc[p] = "X_shutdown"
    /\ loggers' = [loggers EXCEPT ![logger].initialized = FALSE]
    /\ pc' = [pc EXCEPT ![p] = "X_clear"]
    /\ UNCHANGED <<ExitHandler, loggerMu, logger, errVars, arg, cid, seen, late,
                   terminated, histVars, envVars>>

\* line 56, err != nil: a.logger.ShutdownLoggers() reports a failure
ExitShutdownFails(p) ==
    /\ ~terminated
    /\ pc[p] = "X_shutdown"
    /\ pc' = [pc EXCEPT ![p] = "X_err"]
    /\ UNCHANGED <<appVars, arg, cid, seen, late, terminated, histVars, envVars>>

\* an Exit that ignores the failure and goes on to line 60
ExitErrSwallowed(p) ==
    /\ ~terminated
    /\ pc[p] = "X_err"
    /\ pc' = [pc EXCEPT ![p] = "X_clear"]
    /\ UNCHANGED <<appVars, arg, cid, seen, late, terminated, histVars, envVars>>

\* line 57: panic(err), with a.loggerMu still held
ExitPanicsErr(p) ==
    /\ ~terminated
    /\ pc[p] = "X_err"
    /\ End(p, "Exit", "panic(err)", arg[p])
    /\ UNCHANGED <<appVars, terminated, envVars>>
    /\ UNCHANGED <<ncalls, nrecvs, exitStarted, handed, recvLog, sends>>

\* an Exit that leaves the reference in place after the shutdown
ExitClearSkipped(p) ==
    /\ ~terminated
    /\ pc[p] = "X_clear"
    /\ pc' = [pc EXCEPT ![p] = "X_unlock"]
    /\ UNCHANGED <<appVars, arg, cid, seen, late, terminated, histVars, envVars>>

\* line 60: a.logger = nil
ExitClear(p) ==
    /\ ~terminated
    /\ pc[p] = "X_clear"
    /\ logger' = Nil
    /\ pc' = [pc EXCEPT ![p] = "X_unlock"]
    /\ UNCHANGED <<ExitHandler, loggerMu, loggers, errVars, arg, cid, seen, late,
                   terminated, histVars, envVars>>

\* line 62: a.loggerMu.Unlock()
ExitUnlock(p) ==
    /\ ~terminated
    /\ pc[p] = "X_unlock"
    /\ loggerMu' = Unlocked
    /\ pc' = [pc EXCEPT ![p] = "X_handler"]
    /\ UNCHANGED <<ExitHandler, logger, loggers, errVars, arg, cid, seen, late,
                   terminated, histVars, envVars>>

\* what Exit hands over, with the logger state at that moment
Handed(p) ==
    [cid |-> cid[p], code |-> ExitArg(arg[p]), routine |-> ExitRoutine(ExitHandler),
     seen |-> seen[p],
     seenInit |-> IF seen[p] = Nil THEN FALSE ELSE loggers[seen[p]].initialized,
     live |-> {i \in 1 .. Len(loggers) : loggers[i].initialized},
     ref |-> logger]

\* lines 64-67, the routine ends the process: os.Exit(code)
ExitTerminates(p) ==
    /\ ~terminated
    /\ pc[p] = "X_handler"
    /\ ExitHandler \in {"nil", "os.Exit"}
    /\ handed' = Append(handed, Handed(p))
    /\ terminated' = TRUE
    /\ End(p, "Exit", "exit", arg[p])
    /\ UNCHANGED <<appVars, envVars, ncalls, nrecvs, exitStarted, recvLog, sends>>

\* line 67, the handler panics (app_test.go:27-29)
ExitHandlerPanics(p) ==
    /\ ~terminated
    /\ pc[p] = "X_handler"
    /\ ExitHandler = "panics"
    /\ handed' = Append(handed, Handed(p))
    /\ End(p, "Exit", "panic(handler)", arg[p])
    /\ UNCHANGED <<appVars, envVars, terminated, ncalls, nrecvs, exitStarted,
                   recvLog, sends>>

\* line 67, the handler returns (app_test.go:62)
ExitHandlerReturns(p) ==
    /\ ~terminated
    /\ pc[p] = "X_handler"
    /\ ExitHandler = "returns"
    /\ handed' = Append(handed, Handed(p))
    /\ pc' = [pc EXCEPT ![p] = "X_panic"]
    /\ UNCHANGED <<appVars, arg, cid, seen, late, terminated, envVars>>
    /\ UNCHANGED <<ncalls, nrecvs, exitStarted, results, recvLog, sends>>

\* an Exit that returns to its caller when the handler returned
ExitReturns(p) ==
    /\ ~terminated
    /\ pc[p] = "X_panic"
    /\ End(p, "Exit", "return", arg[p])
    /\ UNCHANGED <<appVars, terminated, envVars>>
    /\ UNCHANGED <<ncalls, nrecvs, exitStarted, handed, recvLog, sends>>

\* line 68: panic("exit handler returned")
ExitPanics(p) ==
    /\ ~terminated
    /\ pc[p] = "X_panic"
    /\ End(p, "Exit", "panic(exit handler returned)", arg[p])
    /\ UNCHANGED <<appVars, terminated, envVars>>
    /\ UNCHANGED <<ncalls, nrecvs, exitStarted, handed, recvLog, sends>>

(* ------------- ensureErrorChannel / Errors (app.go:120-133) ------------ *)

\* make(chan error, 1): line 125
ErrChanCap == 1

\* a goroutine calls a.Errors()
CallErrors(p) ==
    /\ CanCall(p)
    /\ Begin(p, "E_lock", 0)
    /\ UNCHANGED <<appVars, seen, late, terminated, envVars>>
    /\ UNCHANGED <<nrecvs, exitStarted, results, handed, recvLog, sends>>

\* a goroutine calls a.HandleError(err)
CallHandleError(p) ==
    /\ CanCall(p)
    /\ \E e \in Errs : Begin(p, "H_lock", e)
    /\ late' = [late EXCEPT ![p] = \E r \in results : r.op = "HandleError"]
    /\ UNCHANGED <<appVars, seen, terminated, envVars>>
    /\ UNCHANGED <<nrecvs, exitStarted, results, handed, recvLog, sends>>

\* the position after ensureErrorChannel returns: line 132 or line 138
AfterEnsure(at) == IF at = "E_unlock" THEN "E_ret" ELSE "H_send"

\* line 121: a.errchMu.Lock()
EnsureLock(p) ==
    /\ ~terminated
    /\ pc[p] \in {"E_lock", "H_lock"}
    /\ MutexFree(errchMu)
    /\ errchMu' = p
    /\ pc' = [pc EXCEPT ![p] = IF pc[p] = "E_lock" THEN "E_check" ELSE "H_check"]
    /\ UNCHANGED <<ExitHandler, logVars, errch, chans, arg, cid, seen, late,
                   terminated, histVars, envVars>>

\* a check that makes a channel on every call
NeedsChannelAlways(c) == TRUE

\* line 124: a.errch == nil
NeedsChannel(c) == c = Nil

\* line 124: if a.errch == nil
EnsureCheck(p) ==
    /\ ~terminated
    /\ pc[p] \in {"E_check", "H_check"}
    /\ pc' = [pc EXCEPT ![p] =
                 IF NeedsChannel(errch)
                 THEN (IF pc[p] = "E_check" THEN "E_make" ELSE "H_make")
                 ELSE (IF pc[p] = "E_check" THEN "E_unlock" ELSE "H_unlock")]
    /\ UNCHANGED <<appVars, arg, cid, seen, late, terminated, histVars, envVars>>

\* line 125: a.errch = make(chan error, 1)
EnsureMake(p) ==
    /\ ~terminated
    /\ pc[p] \in {"E_make", "H_make"}
    /\ chans' = Append(chans, [buf |-> <<>>, closed |-> FALSE])
    /\ errch' = Len(chans) + 1
    /\ pc' = [pc EXCEPT ![p] = IF pc[p] = "E_make" THEN "E_unlock" ELSE "H_unlock"]
    /\ UNCHANGED <<ExitHandler, logVars, errchMu, arg, cid, seen, late,
                   terminated, histVars, envVars>>

\* the deferred unlock of line 122
EnsureUnlock(p) ==
    /\ ~terminated
    /\ pc[p] \in {"E_unlock", "H_unlock"}
    /\ errchMu' = Unlocked
    /\ pc' = [pc EXCEPT ![p] = AfterEnsure(pc[p])]
    /\ UNCHANGED <<ExitHandler, logVars, errch, chans, arg, cid, seen, late,
                   terminated, histVars, envVars>>

\* line 132: return a.errch
ErrorsReturn(p) ==
    /\ ~terminated
    /\ pc[p] = "E_ret"
    /\ End(p, "Errors", "return", errch)
    /\ UNCHANGED <<appVars, terminated, envVars>>
    /\ UNCHANGED <<ncalls, nrecvs, exitStarted, handed, recvLog, sends>>

\* a reader receives from a channel Errors() gave out (app_test.go:144, 152):
\* a buffered value first; (nil, false) once closed and drained; else it blocks
CanReceive(c) == chans[c].buf # <<>> \/ chans[c].closed

Receive ==
    /\ ~terminated
    /\ nrecvs < MaxRecvs
    /\ \E r \in results :
        /\ r.op = "Errors"
        /\ r.val # Nil
        /\ CanReceive(r.val)
        /\ IF chans[r.val].buf # <<>>
           THEN /\ recvLog' = Append(recvLog,
                       [ch |-> r.val, val |-> Head(chans[r.val].buf), ok |-> TRUE])
                /\ chans' = [chans EXCEPT ![r.val].buf = Tail(@)]
           ELSE /\ recvLog' = Append(recvLog, [ch |-> r.val, val |-> Nil, ok |-> FALSE])
                /\ chans' = chans
    /\ nrecvs' = nrecvs + 1
    /\ UNCHANGED <<ExitHandler, logVars, errchMu, errch, procVars, envVars>>
    /\ UNCHANGED <<ncalls, exitStarted, results, handed, sends>>

(* ----------------------- HandleError (app.go:136-140) ------------------ *)

\* a send that drops the error silently when the channel is closed
HandleSendDrops(p) ==
    /\ ~terminated
    /\ pc[p] = "H_send"
    /\ chans[errch].closed
    /\ End(p, "HandleError", "return", arg[p])
    /\ UNCHANGED <<appVars, terminated, envVars>>
    /\ UNCHANGED <<ncalls, nrecvs, exitStarted, handed, recvLog, sends>>

\* line 138, a.errch <- err, on a closed channel: panic
HandleSendPanics(p) ==
    /\ ~terminated
    /\ pc[p] = "H_send"
    /\ chans[errch].closed
    /\ End(p, "HandleError", "panic(send on closed channel)", arg[p])
    /\ UNCHANGED <<appVars, terminated, envVars>>
    /\ UNCHANGED <<ncalls, nrecvs, exitStarted, handed, recvLog, sends>>

\* line 138, a.errch <- err: the value goes into the buffer when it has room
\* (the send blocks while the buffer is full)
HandleSend(p) ==
    /\ ~terminated
    /\ pc[p] = "H_send"
    /\ ~chans[errch].closed
    /\ Len(chans[errch].buf) < ErrChanCap
    /\ chans' = [chans EXCEPT ![errch].buf = Append(@, arg[p])]
    /\ sends' = sends \cup {[cid |-> cid[p], ch |-> errch, val |-> arg[p]]}
    /\ pc' = [pc EXCEPT ![p] = "H_close"]
    /\ UNCHANGED <<ExitHandler, logVars, errchMu, errch, arg, cid, seen, late,
                   terminated, envVars>>
    /\ UNCHANGED <<ncalls, nrecvs, exitStarted, results, handed, recvLog>>

\* a close of a closed channel that passes silently
HandleCloseTwice(p) ==
    /\ ~terminated
    /\ pc[p] = "H_close"
    /\ chans[errch].closed
    /\ End(p, "HandleError", "return", arg[p])
    /\ UNCHANGED <<appVars, terminated, envVars>>
    /\ UNCHANGED <<ncalls, nrecvs, exitStarted, handed, recvLog, sends>>

\* line 139, close(a.errch), on a closed channel: panic
HandleClosePanics(p) ==
    /\ ~terminated
    /\ pc[p] = "H_close"
    /\ chans[errch].closed
    /\ End(p, "HandleError", "panic(close of closed channel)", arg[p])
    /\ UNCHANGED <<appVars, terminated, envVars>>
    /\ UNCHANGED <<ncalls, nrecvs, exitStarted, handed, recvLog, sends>>

\* a HandleError that returns without closing the channel
HandleCloseSkipped(p) ==
    /\ ~terminated
    /\ pc[p] = "H_close"
    /\ ~chans[errch].closed
    /\ End(p, "HandleError", "return", arg[p])
    /\ UNCHANGED <<appVars, terminated, envVars>>
    /\ UNCHANGED <<ncalls, nrecvs, exitStarted, handed, recvLog, sends>>

\* a close that discards the value still in the buffer
HandleCloseDrops(p) ==
    /\ ~terminated
    /\ pc[p] = "H_close"
    /\ ~chans[errch].closed
    /\ chans' = [chans EXCEPT ![errch] = [buf |-> <<>>, closed |-> TRUE]]
    /\ End(p, "HandleError", "return", arg[p])
    /\ UNCHANGED <<ExitHandler, logVars, errchMu, errch, terminated, envVars>>
    /\ UNCHANGED <<ncalls, nrecvs, exitStarted, handed, recvLog, sends>>

\* line 139: close(a.errch), and HandleError returns
HandleClose(p) ==
    /\ ~terminated
    /\ pc[p] = "H_close"
    /\ ~chans[errch].closed
    /\ chans' = [chans EXCEPT ![errch].closed = TRUE]
    /\ End(p, "HandleError", "return", arg[p])
    /\ UNCHANGED <<ExitHandler, logVars, errchMu, errch, terminated, envVars>>
    /\ UNCHANGED <<ncalls, nrecvs, exitStarted, handed, recvLog, sends>>


(* ------------------------ LookupEnv (app.go:144-175) ------------------- *)

\* the characters of environment entries and keys
Alphabet == {"k", "="}

\* the strings of at most n characters
Strs(n) == UNION {[1 .. m -> Alphabet] : m \in 0 .. n}

Lines == Strs(MaxLineLen)
\* a key as long as the longest entry matches none, so the keys are shorter; a
\* key holding '=' matches none either, and the key "=" stands for those
Keys == {k \in Strs(MaxLineLen - 1) :
            Len(k) > 1 => \A j \in 1 .. Len(k) : k[j] # "="}
Environments == UNION {[1 .. m -> Lines] : m \in 0 .. MaxEnv}

\* an index that finds the last '=' instead of the first
LastIndex(s) ==
    IF \E j \in 1 .. Len(s) : s[j] = "="
    THEN CHOOSE j \in 1 .. Len(s) :
             /\ s[j] = "="
             /\ \A h \in (j + 1) .. Len(s) : s[h] # "="
    ELSE 0

\* strings.Index(s, "="): the first place of '=' in s, 0 when there is none
Index(s) ==
    IF \E j \in 1 .. Len(s) : s[j] = "="
    THEN CHOOSE j \in 1 .. Len(s) :
             /\ s[j] = "="
             /\ \A h \in 1 .. (j - 1) : s[h] # "="
    ELSE 0

\* strings.SplitN(line, "=", 2): line 159
SplitN(line) ==
    IF Index(line) = 0
    THEN <<line>>
    ELSE <<SubSeq(line, 1, Index(line) - 1),
           SubSeq(line, Index(line) + 1, Len(line))>>

\* a match that forgets to compare the key
MatchesAnyKey(line, k) == Len(SplitN(line)) = 2

\* line 160: len(slice) == 2 && slice[0] == key
Matches(line, k) == Len(SplitN(line)) = 2 /\ SplitN(line)[1] = k

\* a task that never looks at the context
CtxDoneNever == FALSE

\* line 156: case <-a.Context.Done()
CtxDone == cancelled

\* a task that ends without wg.Done()
WgDoneLost(w) == w

\* line 154: defer wg.Done()
WgDone(w) == w - 1

Entries == 1 .. Len(Environment)

\* the owner of the context cancels it (app_test.go:185)
Cancel ==
    /\ ~cancelled
    /\ cancelled' = TRUE
    /\ UNCHANGED <<appVars, procVars, histVars, Environment, key, cancelledAtCall,
                   mainpc, result, chClosed, wg, spawned, task, closer>>

\* lines 145-171: make(chan string), wg.Add(len(a.Environment)) and the two
\* go statements; the caller then waits at line 173
LookupEnvCall ==
    /\ mainpc = "call"
    /\ mainpc' = "recv"
    /\ cancelledAtCall' = cancelled
    /\ chClosed' = FALSE
    /\ wg' = Len(Environment)
    /\ spawned' = 0
    /\ closer' = "wait"
    /\ UNCHANGED <<appVars, procVars, histVars, Environment, cancelled, key,
                   result, task>>

\* lines 151-153: the spawning goroutine starts the task of the next entry
Spawn ==
    /\ mainpc # "call"
    /\ spawned < Len(Environment)
    /\ spawned' = spawned + 1
    /\ task' = [task EXCEPT ![spawned + 1] = "select"]
    /\ UNCHANGED <<appVars, procVars, histVars, Environment, cancelled, key,
                   cancelledAtCall, mainpc, result, chClosed, wg, closer>>

\* lines 155-157: the context is done: return (and the deferred wg.Done())
TaskCancelled(i) ==
    /\ i \in Entries
    /\ task[i] = "select"
    /\ CtxDone
    /\ task' = [task EXCEPT ![i] = "done"]
    /\ wg' = WgDone(wg)
    /\ UNCHANGED <<appVars, procVars, histVars, Environment, cancelled, key,
                   cancelledAtCall, mainpc, result, chClosed, spawned, closer>>

\* lines 158-160: the entry does not match: the task ends
TaskNoMatch(i) ==
    /\ i \in Entries
    /\ task[i] = "select"
    /\ ~CtxDone
    /\ ~Matches(Environment[i], key)
    /\ task' = [task EXCEPT ![i] = "done"]
    /\ wg' = WgDone(wg)
    /\ UNCHANGED <<appVars, procVars, histVars, Environment, cancelled, key,
                   cancelledAtCall, mainpc, result, chClosed, spawned, closer>>

\* lines 158-160: the entry matches: the task goes on to send
TaskMatch(i) ==
    /\ i \in Entries
    /\ task[i] = "select"
    /\ ~CtxDone
    /\ Matches(Environment[i], key)
    /\ task' = [task EXCEPT ![i] = "send"]
    /\ UNCHANGED <<appVars, procVars, histVars, Environment, cancelled, key,
                   cancelledAtCall, mainpc, result, chClosed, wg, spawned, closer>>

\* line 161 meets line 173: ch is unbuffered, so the send happens when the
\* caller is receiving; the caller returns (v, true), the task ends
TaskSend(i) ==
    /\ i \in Entries
    /\ task[i] = "send"
    /\ mainpc = "recv"
    /\ ~chClosed
    /\ result' = <<SplitN(Environment[i])[2], TRUE>>
    /\ mainpc' = "returned"
    /\ task' = [task EXCEPT ![i] = "done"]
    /\ wg' = WgDone(wg)
    /\ UNCHANGED <<appVars, procVars, histVars, Environment, cancelled, key,
                   cancelledAtCall, chClosed, spawned, closer>>

\* line 170: wg.Wait() returns when the counter is zero
CloserWait ==
    /\ closer = "wait"
    /\ wg = 0
    /\ closer' = "close"
    /\ UNCHANGED <<appVars, procVars, histVars, Environment, cancelled, key,
                   cancelledAtCall, mainpc, result, chClosed, wg, spawned, task>>

\* line 169: the deferred close(ch)
CloserClose ==
    /\ closer = "close"
    /\ chClosed' = TRUE
    /\ closer' = "done"
    /\ UNCHANGED <<appVars, procVars, histVars, Environment, cancelled, key,
                   cancelledAtCall, mainpc, result, wg, spawned, task>>

\* lines 173-174: the receive on the closed channel yields ("", false)
MainRecvClosed ==
    /\ mainpc = "recv"
    /\ chClosed
    /\ result' = <<<<>>, FALSE>>
    /\ mainpc' = "returned"
    /\ UNCHANGED <<appVars, procVars, histVars, Environment, cancelled, key,
                   cancelledAtCall, chClosed, wg, spawned, task, closer>>

(* --------------------------- specifications ---------------------------- *)

\* a fresh handle whose ExitHandler is h, with no goroutine inside a call
InitHandle(h) ==
    /\ ExitHandler = h
    /\ loggerMu = Unlocked
    /\ logger = Nil
    /\ errchMu = Unlocked
    /\ errch = Nil
    /\ loggers = <<>>
    /\ chans = <<>>
    /\ pc = [p \in Procs |-> "idle"]
    /\ arg = [p \in Procs |-> 0]
    /\ cid = [p \in Procs |-> 0]
    /\ seen = [p \in Procs |-> Nil]
    /\ late = [p \in Procs |-> FALSE]
    /\ terminated = FALSE
    /\ ncalls = 0
    /\ nrecvs = 0
    /\ exitStarted = FALSE
    /\ results = {}
    /\ handed = <<>>
    /\ recvLog = <<>>
    /\ sends = {}

\* a handle with environment env on which LookupEnv(k) is about to be called
InitEnv(env, k) ==
    /\ Environment = env
    /\ key = k
    /\ cancelled = FALSE
    /\ cancelledAtCall = FALSE
    /\ mainpc = "call"
    /\ result = <<<<>>, FALSE>>
    /\ chClosed = FALSE
    /\ wg = 0
    /\ spawned = 0
    /\ task = [i \in 1 .. Len(env) |-> "none"]
    /\ closer = "none"

LoggerNext ==
    \E p \in Procs :
        \/ CallLogger(p) \/ LoggerLock(p) \/ LoggerCheck(p) \/ LoggerNew(p)
        \/ LoggerInit(p) \/ LoggerReturn(p) \/ ShutdownLoggers(p)

ExitNext ==
    \E p \in Procs :
        \/ CallExit(p) \/ ExitLock(p) \/ ExitCheck(p) \/ ExitIsInitialized(p)
        \/ ExitShutdown(p) \/ ExitShutdownFails(p) \/ ExitPanicsErr(p)
        \/ ExitClear(p)
        \/ ExitUnlock(p) \/ ExitTerminates(p) \/ ExitHandlerPanics(p)
        \/ ExitHandlerReturns(p) \/ ExitPanics(p)

ErrNext ==
    \E p \in Procs :
        \/ CallErrors(p) \/ CallHandleError(p) \/ EnsureLock(p) \/ EnsureCheck(p)
        \/ EnsureMake(p) \/ EnsureUnlock(p) \/ ErrorsReturn(p)
        \/ HandleSendPanics(p) \/ HandleSend(p) \/ HandleClosePanics(p)
        \/ HandleClose(p)

EnvNext ==
    \/ Cancel \/ LookupEnvCall \/ Spawn \/ CloserWait \/ CloserClose
    \/ MainRecvClosed
    \/ \E i \in Entries : TaskCancelled(i)
    \/ \E i \in Entries : TaskNoMatch(i)
    \/ \E i \in Entries : TaskMatch(i)
    \/ \E i \in Entries : TaskSend(i)

\* Logger and Exit calls racing on one handle
InitLog == (\E h \in ExitHandlers : InitHandle(h)) /\ InitEnv(<<>>, <<>>)
NextLog == LoggerNext \/ ExitNext
SpecLog == InitLog /\ [][NextLog]_vars

\* Logger and Exit calls alone: no caller shuts a logger down itself
LoggerCalls ==
    \E p \in Procs :
        \/ CallLogger(p) \/ LoggerLock(p) \/ LoggerCheck(p) \/ LoggerNew(p)
        \/ LoggerInit(p) \/ LoggerReturn(p)
NextLogExit == LoggerCalls \/ ExitNext
SpecLogExit == InitLog /\ [][NextLogExit]_vars

\* Errors and HandleError calls and receives racing on one handle
InitErr == InitHandle("nil") /\ InitEnv(<<>>, <<>>)
NextErr == ErrNext \/ Receive
SpecErr == InitErr /\ [][NextErr]_vars

\* the steps of the goroutines inside Errors() and HandleError(); starting a
\* call and receiving are the callers' choice
ErrSteps ==
    \E p \in Procs :
        \/ EnsureLock(p) \/ EnsureCheck(p) \/ EnsureMake(p) \/ EnsureUnlock(p)
        \/ ErrorsReturn(p) \/ HandleSendPanics(p) \/ HandleSend(p)
        \/ HandleClosePanics(p) \/ HandleClose(p)

\* the Go scheduler runs some goroutine as long as one can take a step
FairErr == WF_vars(ErrSteps)
FairSpecErr == SpecErr /\ FairErr

\* one LookupEnv call on a handle with any environment and any key
InitLookup == InitHandle("nil") /\ \E env \in Environments, k \in Keys : InitEnv(env, k)
NextLookup == EnvNext
SpecLookup == InitLookup /\ [][NextLookup]_vars

\* the steps of the goroutines of the call; Cancel is the context owner's
LookupSteps ==
    \/ LookupEnvCall \/ Spawn \/ CloserWait \/ CloserClose \/ MainRecvClosed
    \/ \E i \in Entries : TaskCancelled(i)
    \/ \E i \in Entries : TaskNoMatch(i)
    \/ \E i \in Entries : TaskMatch(i)
    \/ \E i \in Entries : TaskSend(i)

\* the Go scheduler runs some goroutine as long as one can take a step; nothing
\* obliges the owner of the context to cancel it
FairLookup == WF_vars(LookupSteps)
FairSpecLookup == SpecLookup /\ FairLookup

\* the whole handle
Init == InitLog
Next == LoggerNext \/ ExitNext \/ ErrNext \/ Receive
Spec == Init /\ [][Next]_vars

(* ------------------------------ claims --------------------------------- *)

\* the calls of op that have ended
Ended(op) == {r \in results : r.op = op}

\* the positions inside Logger() and inside HandleError()
InLogger == {"L_lock", "L_check", "L_new", "L_init", "L_ret"}
InHandleError == {"H_lock", "H_check", "H_make", "H_unlock", "H_send", "H_close"}

\* C1: while no Exit() has run, Logger() calls racing on a fresh handle create
\* exactly one logger instance, and every call returns that one instance.
C1_LoggerOnce ==
    ~exitStarted =>
        /\ Len(loggers) <= 1
        /\ \A r \in Ended("Logger") :
            /\ r.val # Nil
            /\ Len(loggers) = 1
            /\ r.val = logger
        /\ \A r1, r2 \in Ended("Logger") : r1.val = r2.val

\* two Logger() calls overlapped: the one that began later has returned while
\* the earlier one is about to return
C1_Witness ==
    /\ ~exitStarted
    /\ \E p \in Procs, r \in Ended("Logger") :
        /\ pc[p] = "L_ret"
        /\ cid[p] < r.cid

\* C2: over any interleaving of Errors() and HandleError() calls the error
\* channel is made once: every Errors() call returns that same channel, and it
\* is the channel every HandleError sends on.
C2_ChannelOnce ==
    /\ Len(chans) <= 1
    /\ \A r \in Ended("Errors") : r.val # Nil /\ r.val = errch
    /\ \A r1, r2 \in Ended("Errors") : r1.val = r2.val
    /\ \A s \in sends : s.ch = errch /\ \A r \in Ended("Errors") : s.ch = r.val

\* an Errors() call returned before a HandleError sent, and another after it
C2_Witness ==
    /\ sends # {}
    /\ \E r1, r2 \in Ended("Errors"), s \in sends : r1.cid < s.cid /\ s.cid < r2.cid

\* the HandleError calls begun so far
HandleErrorCalls ==
    {r.cid : r \in Ended("HandleError")} \cup
    {cid[p] : p \in {q \in Procs : pc[q] \in InHandleError}}

\* C3: when HandleError(e) is called once, the first receive on the channel
\* yields (e, true) and every other receive yields (nil, false); once that
\* HandleError has returned no receive blocks.
C3_OneDelivery ==
    Cardinality(HandleErrorCalls) = 1 =>
        /\ \A i \in 1 .. Len(recvLog) :
            IF i = 1
            THEN /\ recvLog[i].ok
                 /\ \E s \in sends : s.val = recvLog[i].val
                 /\ \A r \in Ended("HandleError") : r.val = recvLog[i].val
                 /\ \A p \in Procs : pc[p] \in InHandleError => arg[p] = recvLog[i].val
            ELSE recvLog[i] = [ch |-> recvLog[i].ch, val |-> Nil, ok |-> FALSE]
        /\ Cardinality({i \in 1 .. Len(recvLog) : recvLog[i].ok}) <= 1
        /\ Ended("HandleError") # {} =>
               /\ errch # Nil
               /\ CanReceive(errch)
               /\ recvLog # <<>> => chans[errch].closed /\ chans[errch].buf = <<>>

\* one HandleError(e) with a non-nil e has returned and two receives followed:
\* (e, true) and then (nil, false)
C3_Witness ==
    /\ Cardinality(HandleErrorCalls) = 1
    /\ \E r \in Ended("HandleError") : r.out = "return" /\ r.val # Nil
    /\ Len(recvLog) = 2
    /\ recvLog[1].ok /\ recvLog[1].val # Nil
    /\ ~recvLog[2].ok

\* C4: at most one error value is ever sent on, and at most one received with
\* hasValue = true from, the handle's error channel.
C4_AtMostOneValue ==
    /\ Cardinality(sends) <= 1
    /\ Cardinality({i \in 1 .. Len(recvLog) : recvLog[i].ok}) <= 1

\* C5: a HandleError() call that begins after an earlier one has ended panics
\* on its send: its value is never put on the channel, and the channel stays
\* closed.
C5_SecondPanics ==
    /\ \A r \in Ended("HandleError") :
        r.late =>
            /\ r.out = "panic(send on closed channel)"
            /\ \A s \in sends : s.cid # r.cid
    /\ \A p \in Procs :
        late[p] =>
            /\ pc[p] # "H_close"
            /\ \A s \in sends : s.cid # cid[p]
    /\ Ended("HandleError") # {} => errch # Nil /\ chans[errch].closed

\* a HandleError returned, a later one began and panicked
C5_Witness ==
    \E r1, r2 \in Ended("HandleError") :
        /\ r1.out = "return"
        /\ r1.cid < r2.cid
        /\ r2.late
        /\ r2.out = "panic(send on closed channel)"

\* line is an entry for key k: k, then '=', and no '=' inside k
IsEntryFor(line, k) ==
    /\ Len(line) > Len(k)
    /\ \A j \in 1 .. Len(k) : line[j] = k[j] /\ k[j] # "="
    /\ line[Len(k) + 1] = "="

\* the value of an entry for key k: everything after that '='
ValueOf(line, k) == [j \in 1 .. (Len(line) - Len(k) - 1) |-> line[Len(k) + 1 + j]]

\* the entries of the environment that are entries for the key searched
KeyEntries == {i \in Entries : IsEntryFor(Environment[i], key)}

\* C6: with the context not cancelled and the key in at most one entry,
\* LookupEnv returns (V, true) when an entry K=V exists and ("", false) when
\* none does, whatever the order of the entries and the schedule of the tasks.
C6_UniqueKey ==
    (mainpc = "returned" /\ ~cancelled /\ Cardinality(KeyEntries) <= 1) =>
        IF KeyEntries = {}
        THEN result = <<<<>>, FALSE>>
        ELSE \A i \in KeyEntries : result = <<ValueOf(Environment[i], key), TRUE>>

\* the call returned the non-empty value of the only entry for the key, which
\* is the last of two entries
C6_Witness ==
    /\ mainpc = "returned"
    /\ ~cancelled
    /\ Len(Environment) = 2
    /\ KeyEntries = {2}
    /\ result[2]
    /\ result[1] # <<>>

\* C7: when the context is cancelled before LookupEnv is called, the call
\* returns ("", false) and no task gets to its send.
C7_CancelledBefore ==
    cancelledAtCall =>
        /\ \A i \in Entries : task[i] # "send"
        /\ mainpc = "returned" => result = <<<<>>, FALSE>>

\* the call returned under a cancelled context although an entry has the key
C7_Witness ==
    /\ cancelledAtCall
    /\ mainpc = "returned"
    /\ KeyEntries # {}

\* C8: under fair scheduling every LookupEnv call returns, whatever the
\* environment and whenever the context is cancelled.
C8_Returns == <>(mainpc = "returned")

\* the call returned with two entries for the key and a context cancelled
\* while it ran
C8_Witness ==
    /\ mainpc = "returned"
    /\ Cardinality(KeyEntries) = 2
    /\ cancelled
    /\ ~cancelledAtCall

\* the positions of Exit at which it holds the logger lock
ExitLocked == {"X_check", "X_isinit", "X_shutdown", "X_err", "X_clear", "X_unlock"}

\* C9: when Exit finds a logger, it shuts it down and clears the reference
\* while holding the lock, and only then invokes the exit handler: whenever the
\* handler is invoked, the instance Exit found is shut down and is no longer
\* the handle's logger.
C9_TeardownFirst ==
    /\ \A i \in 1 .. Len(handed) :
        handed[i].seen # Nil =>
            /\ ~handed[i].seenInit
            /\ handed[i].ref # handed[i].seen
    /\ \A p \in Procs :
        /\ pc[p] \in ExitLocked => loggerMu = p
        /\ (pc[p] = "X_unlock" /\ seen[p] # Nil) =>
               logger = Nil /\ ~loggers[seen[p]].initialized
        /\ (pc[p] \in {"X_handler", "X_panic"} /\ seen[p] # Nil) =>
               logger # seen[p] /\ ~loggers[seen[p]].initialized

\* Exit invoked the handler after tearing down a logger that Logger() had
\* returned
C9_Witness ==
    \E i \in 1 .. Len(handed), r \in Ended("Logger") :
        /\ handed[i].seen # Nil
        /\ r.val = handed[i].seen
        /\ r.cid < handed[i].cid

\* the number of times the call c handed control to the exit routine
HandedBy(c) == Cardinality({i \in 1 .. Len(handed) : handed[i].cid = c})

\* C10: an Exit(code) call that gets past its teardown hands control to the
\* exit routine once, with the code it was given: the ExitHandler when one is
\* set, os.Exit otherwise.
C10_HandsCode ==
    /\ \A i \in 1 .. Len(handed) :
        /\ HandedBy(handed[i].cid) = 1
        /\ ExitHandler = "nil" => handed[i].routine = "os.Exit"
        /\ ExitHandler # "nil" => handed[i].routine = "ExitHandler"
    /\ \A r \in Ended("Exit") :
        r.out # "panic(err)" =>
            \E i \in 1 .. Len(handed) : handed[i].cid = r.cid /\ handed[i].code = r.val
    /\ \A p \in Procs :
        /\ pc[p] = "X_panic" =>
            \E i \in 1 .. Len(handed) : handed[i].cid = cid[p] /\ handed[i].code = arg[p]
        /\ pc[p] \in ExitLocked \cup {"X_lock", "X_handler"} => HandedBy(cid[p]) = 0

\* Exit(255) on a handle with no handler and no logger ended the process
\* through os.Exit(255)
C10_Witness ==
    /\ terminated
    /\ \E i \in 1 .. Len(handed), r \in Ended("Exit") :
        /\ handed[i].cid = r.cid
        /\ handed[i].code = 255
        /\ handed[i].routine = "os.Exit"
        /\ handed[i].seen = Nil
        /\ loggers = <<>>

\* C11: Exit never returns normally to its caller; when a configured handler
\* returns control, Exit panics with "exit handler returned".
C11_NeverReturns ==
    /\ \A r \in Ended("Exit") :
        /\ r.out \in {"exit", "panic(err)", "panic(handler)",
                      "panic(exit handler returned)"}
        /\ (ExitHandler = "returns" /\ HandedBy(r.cid) > 0) =>
               r.out = "panic(exit handler returned)"
        /\ r.out = "panic(exit handler returned)" => ExitHandler = "returns"
    /\ \A p \in Procs : pc[p] = "X_panic" => ExitHandler = "returns"

\* the handler returned and Exit panicked with "exit handler returned"
C11_Witness ==
    \E r \in Ended("Exit") :
        /\ r.out = "panic(exit handler returned)"
        /\ HandedBy(r.cid) = 1

\* a logger instance is live from its creation until it is shut down
Live(i) ==
    \/ loggers[i].initialized
    \/ \E p \in Procs : pc[p] = "L_init" /\ seen[p] = i

LiveLoggers == {i \in 1 .. Len(loggers) : Live(i)}

\* C12: under any interleaving of Logger() and Exit() calls at most one logger
\* instance of the handle is live, and a live instance is the one the handle
\* refers to: the next one is created only after it is torn down and cleared.
C12_OneLive ==
    /\ Cardinality(LiveLoggers) <= 1
    /\ \A i \in LiveLoggers : logger = i
    /\ \A p \in Procs : pc[p] = "L_new" => logger = Nil /\ LiveLoggers = {}

\* a second instance lives after Exit tore the first one down
C12_Witness ==
    /\ Len(loggers) = 2
    /\ LiveLoggers = {2}
    /\ \E i \in 1 .. Len(handed) : handed[i].seen = 1

\* C13: under fair scheduling every per-entry task of a LookupEnv call ends
\* and the supervising goroutine then closes the channel, also when several
\* entries share the key.
C13_TasksFinish == <>(closer = "done" /\ \A i \in Entries : task[i] = "done")

\* C14: when LookupEnv returns (v, true), some entry has the key before its
\* first '=' and v after it; with the context not cancelled and an entry for
\* the key present, found is true.
C14_ResultFromEntry ==
    mainpc = "returned" =>
        /\ result[2] => \E i \in KeyEntries : result[1] = ValueOf(Environment[i], key)
        /\ ~result[2] => result[1] = <<>>
        /\ (~cancelled /\ KeyEntries # {}) => result[2]

\* two entries share the key with different values, and the call returned the
\* value of the second
C14_Witness ==
    /\ mainpc = "returned"
    /\ result[2]
    /\ KeyEntries = {1, 2}
    /\ ValueOf(Environment[1], key) # ValueOf(Environment[2], key)
    /\ result[1] = ValueOf(Environment[2], key)

\* C15: when the logger's shutdown reports a failure, the next step of that
\* Exit call is panic(err): the call ends with that panic and has not invoked,
\* and does not invoke, the exit routine.
C15_FailurePanics ==
    [][/\ \A p \in Procs :
           pc[p] = "X_err" =>
               \/ pc'[p] = "X_err"
               \/ /\ pc'[p] = "idle"
                  /\ handed' = handed
                  /\ \E r \in results' :
                      r.cid = cid[p] /\ r.op = "Exit" /\ r.out = "panic(err)"
       /\ \A r \in Ended("Exit")' : r.out = "panic(err)" => HandedBy(r.cid)' = 0
      ]_vars

\* an Exit call found a logger that Logger() had returned, its shutdown failed
\* and the call ended with panic(err)
C15_Witness ==
    \E r \in Ended("Exit"), l \in Ended("Logger") :
        /\ r.out = "panic(err)"
        /\ l.cid < r.cid
        /\ l.val = logger
        /\ loggers[logger].initialized

\* C16: at the moment Exit hands control to the exit routine, every logger
\* instance Logger() has created is shut down and the handle's logger
\* reference is absent.
C16_NoneLiveAtHandover ==
    \A i \in 1 .. Len(handed) : handed[i].ref = Nil /\ handed[i].live = {}

\* the instances Exit has shut down (none is shut down by a caller here)
TornDown == {i \in 1 .. Len(loggers) : ~Live(i)}

\* the positions of Logger() at which it holds the logger lock
LoggerLocked == {"L_check", "L_new", "L_init", "L_ret"}

\* C17: with only Logger() and Exit() calls on the handle, a Logger() call
\* that holds the lock after a teardown returns an initialized instance that
\* was created after every instance Exit has shut down; it never returns an
\* instance Exit has shut down.
C17_FreshAfterTeardown ==
    /\ \A p \in Procs :
        /\ pc[p] \in LoggerLocked =>
            /\ loggerMu = p
            /\ \A q \in Procs : pc[q] \notin ExitLocked
        /\ pc[p] = "L_check" => logger \notin TornDown
        /\ pc[p] = "L_ret" =>
            /\ logger # Nil
            /\ loggers[logger].initialized
            /\ \A t \in TornDown : logger > t
    /\ \A r \in Ended("Logger") : r.val # Nil

\* a Logger() call is about to return the second instance, created after Exit
\* tore the first one down
C17_Witness ==
    \E p \in Procs :
        /\ pc[p] = "L_ret"
        /\ logger = 2
        /\ TornDown = {1}
        /\ \E i \in 1 .. Len(handed) : handed[i].seen = 1

\* C18: the first HandleError(e) call sends and closes without any reader
\* having received, and the value stays in the closed channel: a reader that
\* comes after the call has returned receives (e, true) without blocking.
C18_ValueStays ==
    /\ \A p \in Procs :
        (Cardinality(HandleErrorCalls) = 1 /\ recvLog = <<>>) =>
            /\ pc[p] = "H_send" => ENABLED HandleSend(p)
            /\ pc[p] = "H_close" => ENABLED HandleClose(p)
    /\ \A r \in Ended("HandleError") :
        r.out = "return" =>
            /\ recvLog = <<>> =>
                /\ chans[errch].buf = <<r.val>>
                /\ chans[errch].closed
                /\ CanReceive(errch)
            /\ (recvLog # <<>> /\ Cardinality(HandleErrorCalls) = 1) =>
                   recvLog[1] = [ch |-> errch, val |-> r.val, ok |-> TRUE]

\* HandleError(e) returned, every Errors() call began after that call did, and
\* the one receive performed yielded (e, true)
C18_Witness ==
    \E r \in Ended("HandleError") :
        /\ r.out = "return"
        /\ r.val # Nil
        /\ Ended("Errors") # {}
        /\ \A x \in Ended("Errors") : x.cid > r.cid
        /\ recvLog = <<[ch |-> errch, val |-> r.val, ok |-> TRUE]>>

\* C19: once an Exit(), Logger(), Errors() or HandleError() call has ended,
\* by returning, by invoking the exit handler or by panicking, its goroutine
\* holds neither the logger lock nor the error-channel lock.
C19_NoLockLeft ==
    \A p \in Procs : pc[p] = "idle" => loggerMu # p /\ errchMu # p

\* the HandleError calls that returned without panicking
Returned == {r \in Ended("HandleError") : r.out = "return"}

\* C20: with HandleError() calls running concurrently with readers, under fair
\* scheduling every call ends (the calls being finitely many, from some point
\* on none is in progress); at most one ever returns without panicking, and
\* once all calls begun have ended exactly one has, each other one having
\* panicked on its send or on its close.
C20_OneCompletes ==
    /\ [](/\ Cardinality(Returned) <= 1
          /\ \A r \in Ended("HandleError") \ Returned :
              r.out \in {"panic(send on closed channel)",
                         "panic(close of closed channel)"}
          /\ (Ended("HandleError") # {} /\ \A p \in Procs : pc[p] \notin InHandleError)
                 => Cardinality(Returned) = 1)
    /\ <>[](\A p \in Procs : pc[p] \notin InHandleError)

\* two concurrent HandleError calls have ended with a receive between their
\* sends: one returned, the other panicked on its close
C20_Witness ==
    /\ Cardinality(sends) = 2
    /\ Cardinality(Returned) = 1
    /\ \E r \in Ended("HandleError") : r.out = "panic(close of closed channel)"
    /\ \A p \in Procs : pc[p] \notin InHandleError

====
